---------------------------- MODULE Spec2Model ----------------------------
(***************************************************************************)
(* photo_exif_dates.py: read the EXIF shooting date of the images under a  *)
(* path and draw it as a text watermark on a copy saved in                 *)
(* <root>/<basename(root)>_watermark/.                                     *)
(*                                                                         *)
(* Text is modelled as a sequence of characters, each character a          *)
(* one-character string; the NUL character is written "NUL".               *)
(***************************************************************************)
EXTENDS Integers, Sequences, FiniteSets, TLC

\* Python values: None, text, bytes, integers; a date; a raised exception
None == [type |-> "NoneType"]
Str(s) == [type |-> "str", val |-> s]
Bytes(s) == [type |-> "bytes", val |-> s]
PyInt(n) == [type |-> "int", val |-> n]
Date(y, m, d) == [type |-> "date", year |-> y, month |-> m, day |-> d]
Raised == [type |-> "exception"]
\* the truth value of a Python value
Truthy(v) ==
  CASE v.type = "NoneType" -> FALSE
    [] v.type \in {"str", "bytes"} -> v.val # <<>>
    [] v.type = "int" -> v.val # 0
    [] OTHER -> TRUE

(***************************************************************************)
(* Characters                                                              *)
(***************************************************************************)
NUL == "NUL"
Whitespace == {" ", "\t", "\n"}
DigitChars == <<"0", "1", "2", "3", "4", "5", "6", "7", "8", "9">>
DigitVal ==
  [c \in {DigitChars[i] : i \in 1..10} |-> CHOOSE v \in 0..9 : DigitChars[v + 1] = c]
IsDigit(c) == c \in DOMAIN DigitVal
At(s, i) == IF i >= 1 /\ i <= Len(s) THEN s[i] ELSE "EOS"
Prefix(s, n) == SubSeq(s, 1, IF n < Len(s) THEN n ELSE Len(s))

\* str.strip(chars): drop the leading and the trailing characters in chars
RECURSIVE LStrip(_, _)
LStrip(s, chars) ==
  IF s # <<>> /\ Head(s) \in chars THEN LStrip(Tail(s), chars) ELSE s
RECURSIVE RStrip(_, _)
RStrip(s, chars) ==
  IF s # <<>> /\ s[Len(s)] \in chars THEN RStrip(SubSeq(s, 1, Len(s) - 1), chars) ELSE s
Strip(s, chars) == RStrip(LStrip(s, chars), chars)

\* str.replace(old, new) for single characters
Replace(s, old, new) == [i \in 1..Len(s) |-> IF s[i] = old THEN new ELSE s[i]]

(***************************************************************************)
(* datetime.strptime for the formats the program uses.  A format is        *)
(* [sep, time]: %Y<sep>%m<sep>%d, followed by " %H:%M:%S" when time.       *)
(* Each directive is the regular expression of CPython's _strptime; a      *)
(* matcher gives the set of positions at which a match of the directive    *)
(* starting at p can end, with the value matched.                          *)
(***************************************************************************)
Num2(a, b) == 10 * DigitVal[a] + DigitVal[b]

\* %Y  \d\d\d\d
MatchY(s, p) ==
  IF \A k \in 0..3 : IsDigit(At(s, p + k))
    THEN {[val |-> 1000 * DigitVal[s[p]] + 100 * DigitVal[s[p + 1]]
                    + 10 * DigitVal[s[p + 2]] + DigitVal[s[p + 3]],
           next |-> p + 4]}
    ELSE {}

\* a directive of one or two digits: two digits whose value is in ok2, or one
\* digit whose value is in ok1
MatchDigits(s, p, ok2, ok1) ==
  (IF IsDigit(At(s, p)) /\ IsDigit(At(s, p + 1)) /\ Num2(s[p], s[p + 1]) \in ok2
     THEN {[val |-> Num2(s[p], s[p + 1]), next |-> p + 2]} ELSE {})
  \cup
  (IF IsDigit(At(s, p)) /\ DigitVal[s[p]] \in ok1
     THEN {[val |-> DigitVal[s[p]], next |-> p + 1]} ELSE {})

\* %m  1[0-2]|0[1-9]|[1-9]
Matchm(s, p) == MatchDigits(s, p, 1..12, 1..9)
\* %d  3[0-1]|[1-2]\d|0[1-9]|[1-9]| [1-9]
Matchd(s, p) ==
  MatchDigits(s, p, 1..31, 1..9)
  \cup
  (IF At(s, p) = " " /\ IsDigit(At(s, p + 1)) /\ DigitVal[At(s, p + 1)] \in 1..9
     THEN {[val |-> DigitVal[s[p + 1]], next |-> p + 2]} ELSE {})
\* %H  2[0-3]|[0-1]\d|\d
MatchH(s, p) == MatchDigits(s, p, 0..23, 0..9)
\* %M  [0-5]\d|\d
MatchM(s, p) == MatchDigits(s, p, 0..59, 0..9)
\* %S  6[0-1]|[0-5]\d|\d
MatchS(s, p) == MatchDigits(s, p, 0..61, 0..9)

\* a literal character of the format
MatchLit(s, p, c) == IF At(s, p) = c THEN {p + 1} ELSE {}
\* white space in the format is \s+
MatchSpaces(s, p) ==
  {q \in (p + 1)..(Len(s) + 1) : \A k \in p..(q - 1) : At(s, k) \in Whitespace}

IsLeap(y) == (y % 4 = 0 /\ y % 100 # 0) \/ y % 400 = 0
DaysInMonth(y, m) ==
  IF m = 2 THEN (IF IsLeap(y) THEN 29 ELSE 28)
  ELSE IF m \in {4, 6, 9, 11} THEN 30 ELSE 31
\* the datetime constructor's range checks (MINYEAR is 1)
ValidDate(y, m, d) == y >= 1 /\ m \in 1..12 /\ d >= 1 /\ d <= DaysInMonth(y, m)

\* %Y<sep>%m<sep>%d matched at the start of s
DateMatches(s, sep) ==
  UNION {UNION {{[year |-> y.val, month |-> m.val, day |-> d.val, next |-> d.next] :
                   d \in UNION {Matchd(s, q) : q \in MatchLit(s, m.next, sep)}} :
                m \in UNION {Matchm(s, q) : q \in MatchLit(s, y.next, sep)}} :
         y \in MatchY(s, 1)}

\* \s+%H:%M:%S matched at p
TimeMatches(s, p) ==
  UNION {UNION {{[second |-> sec.val, next |-> sec.next] :
                   sec \in UNION {MatchS(s, q) : q \in MatchLit(s, mi.next, ":")}} :
                mi \in UNION {MatchM(s, q) : q \in MatchLit(s, h.next, ":")}} :
         h \in UNION {MatchH(s, q) : q \in MatchSpaces(s, p)}}

\* datetime.strptime(s, fmt): the date parsed, or None for ValueError.  The
\* expression must match at the start of s and leave nothing unconverted; the
\* separators make the match unique when there is one.
FullMatches(s, fmt) ==
  IF fmt.time
    THEN UNION {{[year |-> d.year, month |-> d.month, day |-> d.day,
                  second |-> t.second] :
                   t \in {u \in TimeMatches(s, d.next) : u.next = Len(s) + 1}} :
                d \in DateMatches(s, fmt.sep)}
    ELSE {[year |-> d.year, month |-> d.month, day |-> d.day, second |-> 0] :
            d \in {dd \in DateMatches(s, fmt.sep) : dd.next = Len(s) + 1}}
\* the datetime built from the fields matched, ValueError when out of range
Checked(r) ==
  IF ValidDate(r.year, r.month, r.day) /\ r.second <= 59
    THEN Date(r.year, r.month, r.day)
    ELSE None
Converted(full) == IF full = {} THEN None ELSE Checked(CHOOSE x \in full : TRUE)
strptime(s, fmt) == Converted(FullMatches(s, fmt))

\* the exact formats, in the order tried
ExactFormats ==
  << [sep |-> ":", time |-> TRUE], [sep |-> "-", time |-> TRUE],
     [sep |-> "/", time |-> TRUE], [sep |-> ":", time |-> FALSE],
     [sep |-> "-", time |-> FALSE], [sep |-> "/", time |-> FALSE] >>
\* the formats tried on the leading ten characters
SalvageFormats ==
  << [sep |-> "-", time |-> FALSE], [sep |-> "/", time |-> FALSE],
     [sep |-> ":", time |-> FALSE] >>

\* the first attempt of the sequence (pairs <<string, format>>) that parses
RECURSIVE FirstParsed(_)
OrNext(r, tries) == IF r # None THEN r ELSE FirstParsed(Tail(tries))
FirstParsed(tries) ==
  IF tries = <<>> THEN None
  ELSE OrNext(strptime(Head(tries)[1], Head(tries)[2]), tries)

\* _parse_exif_datetime with lines 84-90 left out: no salvage of the leading
\* ten characters
\* line 67: (dt_str or "").strip().strip("\x00"), for text
Stripped(dt_str) ==
  Strip(Strip(IF Truthy(dt_str) THEN dt_str.val ELSE <<>>, Whitespace), {NUL})
\* lines 71-82: the exact formats tried on s
Exact(s) == FirstParsed([i \in 1..Len(ExactFormats) |-> <<s, ExactFormats[i]>>])
\* lines 84-90: each candidate tried with each salvage format
Salvage(candidates) ==
  FirstParsed([i \in 1..(Len(candidates) * Len(SalvageFormats)) |->
                 << candidates[((i - 1) \div Len(SalvageFormats)) + 1],
                    SalvageFormats[((i - 1) % Len(SalvageFormats)) + 1] >>])
OrSalvage(exact, s) ==
  IF exact # None THEN exact
  ELSE Salvage(<<Prefix(s, 10), Prefix(Replace(s, ":", "-"), 10)>>)
ParseStripped(s) == IF s = <<>> THEN None ELSE OrSalvage(Exact(s), s)
ExactStripped(s) == IF s = <<>> THEN None ELSE Exact(s)

parse_exif_datetime_exact_only(dt_str) ==
  IF Truthy(dt_str) /\ dt_str.type # "str" THEN Raised
  ELSE ExactStripped(Stripped(dt_str))

\* _parse_exif_datetime(dt_str): a date, None, or Raised (the value has no strip
\* method taking text)
parse_exif_datetime(dt_str) ==
  IF Truthy(dt_str) /\ dt_str.type # "str" THEN Raised
  ELSE ParseStripped(Stripped(dt_str))

\* strftime("%Y-%m-%d") of a date (glibc does not pad %Y)
RECURSIVE Decimal(_)
Decimal(n) == IF n < 10 THEN <<DigitChars[n + 1]>>
              ELSE Decimal(n \div 10) \o <<DigitChars[(n % 10) + 1]>>
Pad2(n) == <<DigitChars[(n \div 10) + 1], DigitChars[(n % 10) + 1]>>
strftime(d) == Decimal(d.year) \o <<"-">> \o Pad2(d.month) \o <<"-">> \o Pad2(d.day)

PyText(d) == Str(strftime(d))

(***************************************************************************)
(* EXIF                                                                    *)
(***************************************************************************)
\* the tags tried, in priority order: DateTimeOriginal (36867),
\* DateTimeDigitized (36868), DateTime (306)
DATETIME_TAGS == <<"DateTimeOriginal", "DateTimeDigitized", "DateTime">>

\* bytes.decode("utf-8", errors="ignore"): the undecodable bytes, written
\* "BAD", are dropped
Decode(b) == SelectSeq(b, LAMBDA c : c # "BAD")

\* lines 45-58: the tags from the k-th on; the text of the first date parsed,
\* None when no tag gives one, Raised when the parser raises
RECURSIVE TryTags(_, _)
\* lines 56-58: the date parsed is returned as text, or the next tag is tried
Parsed(dt, exif_data, k) ==
  IF dt = Raised THEN Raised
  ELSE IF dt # None THEN PyText(dt)
  ELSE TryTags(exif_data, k + 1)
\* lines 48-56: an absent or empty value is passed over, bytes are decoded
TryValue(value, exif_data, k) ==
  IF ~Truthy(value) THEN TryTags(exif_data, k + 1)
  ELSE Parsed(parse_exif_datetime(IF value.type = "bytes" THEN Str(Decode(value.val))
                                  ELSE value),
              exif_data, k)
TryTags(exif_data, k) ==
  IF k > Len(DATETIME_TAGS) THEN None
  ELSE TryValue(exif_data[DATETIME_TAGS[k]], exif_data, k)

\* an image file: opens tells whether Image.open and getexif succeed on it,
\* exif maps each tag to its value (None when the tag is absent)
ImageFile(opens, o, d, g) ==
  [opens |-> opens,
   exif |-> [tg \in {"DateTimeOriginal", "DateTimeDigitized", "DateTime"} |->
               IF tg = "DateTimeOriginal" THEN o
               ELSE IF tg = "DateTimeDigitized" THEN d ELSE g]]

\* lines 59-61: every exception is caught and means no date
Caught(r) == IF r = Raised THEN None ELSE r
\* extract_date_from_exif(file_path), on the file at that path: the text
\* YYYY-MM-DD or None
extract_date_from_exif(file) ==
  IF ~file.opens THEN None
  ELSE IF \A tg \in DOMAIN file.exif : file.exif[tg] = None THEN None
  ELSE Caught(TryTags(file.exif, 1))

(***************************************************************************)
(* Watermark layout                                                        *)
(***************************************************************************)
POS_CHOICES ==
  <<"top-left", "top-center", "top-right",
    "center-left", "center", "center-right",
    "bottom-left", "bottom-center", "bottom-right">>

\* _calc_position with the centre rounded toward zero instead of down
TruncDiv2(n) == IF n >= 0 THEN n \div 2 ELSE 0 - ((0 - n) \div 2)
calc_position_truncating(pos, img_w, img_h, text_w, text_h, margin) ==
  CASE pos = "top-left" -> <<margin, margin>>
    [] pos = "top-center" -> <<TruncDiv2(img_w - text_w), margin>>
    [] pos = "top-right" -> <<img_w - text_w - margin, margin>>
    [] pos = "center-left" -> <<margin, TruncDiv2(img_h - text_h)>>
    [] pos = "center" -> <<TruncDiv2(img_w - text_w), TruncDiv2(img_h - text_h)>>
    [] pos = "center-right" -> <<img_w - text_w - margin, TruncDiv2(img_h - text_h)>>
    [] pos = "bottom-left" -> <<margin, img_h - text_h - margin>>
    [] pos = "bottom-center" -> <<TruncDiv2(img_w - text_w), img_h - text_h - margin>>
    [] OTHER -> <<img_w - text_w - margin, img_h - text_h - margin>>

\* _calc_position(pos, img_w, img_h, text_w, text_h, margin); // is \div
calc_position(pos, img_w, img_h, text_w, text_h, margin) ==
  CASE pos = "top-left" -> <<margin, margin>>
    [] pos = "top-center" -> <<(img_w - text_w) \div 2, margin>>
    [] pos = "top-right" -> <<img_w - text_w - margin, margin>>
    [] pos = "center-left" -> <<margin, (img_h - text_h) \div 2>>
    [] pos = "center" -> <<(img_w - text_w) \div 2, (img_h - text_h) \div 2>>
    [] pos = "center-right" -> <<img_w - text_w - margin, (img_h - text_h) \div 2>>
    [] pos = "bottom-left" -> <<margin, img_h - text_h - margin>>
    [] pos = "bottom-center" -> <<(img_w - text_w) \div 2, img_h - text_h - margin>>
    [] pos = "bottom-right" -> <<img_w - text_w - margin, img_h - text_h - margin>>
    [] OTHER -> <<img_w - text_w - margin, img_h - text_h - margin>>

Max(a, b) == IF a > b THEN a ELSE b
Min(a, b) == IF a < b THEN a ELSE b

(***************************************************************************)
(* Colours                                                                 *)
(***************************************************************************)
\* str.split(","): the pieces between the commas
RECURSIVE Split(_, _)
Split(s, sep) ==
  IF \A i \in 1..Len(s) : s[i] # sep THEN <<s>>
  ELSE LET k == CHOOSE i \in 1..Len(s) : s[i] = sep /\ \A j \in 1..(i - 1) : s[j] # sep
       IN <<SubSeq(s, 1, k - 1)>> \o Split(SubSeq(s, k + 1, Len(s)), sep)

RECURSIVE DigitsValue(_)
DigitsValue(s) ==
  IF s = <<>> THEN 0 ELSE 10 * DigitsValue(SubSeq(s, 1, Len(s) - 1)) + DigitVal[s[Len(s)]]

\* int(x): an optional sign and decimal digits; Raised for ValueError
int(x) ==
  LET signed == x # <<>> /\ Head(x) \in {"+", "-"}
      digits == IF signed THEN Tail(x) ELSE x
  IN IF digits = <<>> \/ \E i \in 1..Len(digits) : ~IsDigit(digits[i]) THEN Raised
     ELSE PyInt(IF signed /\ Head(x) = "-" THEN 0 - DigitsValue(digits)
                ELSE DigitsValue(digits))

\* ImageColor.getrgb(s), for text without a comma: a colour name or
\* #rgb, #rgba, #rrggbb, #rrggbbaa; Raised for ValueError
HexChars == <<"0", "1", "2", "3", "4", "5", "6", "7", "8", "9",
              "a", "b", "c", "d", "e", "f">>
Lower(c) ==
  CASE c = "A" -> "a" [] c = "B" -> "b" [] c = "C" -> "c" [] c = "D" -> "d"
    [] c = "E" -> "e" [] c = "F" -> "f" [] c = "R" -> "r" [] OTHER -> c
IsHex(c) == \E v \in 1..16 : HexChars[v] = c
HexVal(c) == (CHOOSE v \in 1..16 : HexChars[v] = c) - 1
ColorNames ==
  [name \in {<<"r", "e", "d">>, <<"b", "l", "u", "e">>, <<"w", "h", "i", "t", "e">>} |->
     CASE name = <<"r", "e", "d">> -> <<255, 0, 0>>
       [] name = <<"b", "l", "u", "e">> -> <<0, 0, 255>>
       [] OTHER -> <<255, 255, 255>>]
getrgb(color) ==
  LET s == [i \in 1..Len(color) |-> Lower(color[i])]
      hex == IF s # <<>> /\ Head(s) = "#" THEN Tail(s) ELSE <<"?">>
  IN IF s \in DOMAIN ColorNames THEN ColorNames[s]
     ELSE IF \E i \in 1..Len(hex) : ~IsHex(hex[i]) THEN Raised
     ELSE IF Len(hex) \in {3, 4}
       THEN [i \in 1..Len(hex) |-> 16 * HexVal(hex[i]) + HexVal(hex[i])]
     ELSE IF Len(hex) \in {6, 8}
       THEN [i \in 1..(Len(hex) \div 2) |-> 16 * HexVal(hex[2 * i - 1]) + HexVal(hex[2 * i])]
     ELSE Raised

\* _parse_color(color_str): the tuple returned; white when anything raises
parse_color(color_str) ==
  LET s == Strip(color_str, Whitespace)
      parts == [i \in 1..Len(Split(s, ",")) |-> int(Strip(Split(s, ",")[i], Whitespace))]
      named == getrgb(s)
  IN IF \E i \in 1..Len(s) : s[i] = ","
       THEN IF \E i \in 1..Len(parts) : parts[i] = Raised THEN <<255, 255, 255>>
            ELSE IF Len(parts) >= 3 THEN <<parts[1].val, parts[2].val, parts[3].val>>
            ELSE IF named = Raised THEN <<255, 255, 255>> ELSE named
     ELSE IF named = Raised THEN <<255, 255, 255>> ELSE named

\* line 330: the opacity main passes to annotate_image
main_opacity(opacity) == Max(0, Min(255, opacity))

\* line 209: the fill annotate_image passes to draw.text
text_fill(color, opacity) ==
  LET rgb == parse_color(color)
  IN <<rgb[1], rgb[2], rgb[3], Max(0, Min(255, opacity))>>

(***************************************************************************)
(* Paths and the file system.  A path is the sequence of its components    *)
(* from the file-system root; fs maps the path of every regular file to    *)
(* its content, dirs is the set of directories.                            *)
(***************************************************************************)
SUPPORTED_EXTS == {".jpg", ".jpeg", ".tif", ".tiff", ".png", ".webp", ".bmp"}

\* os.path.splitext(name)[1].lower() of the names of the model
ExtLower(name) ==
  CASE name = "a.jpg" -> ".jpg"
    [] name = "b.PNG" -> ".png"
    [] name = "notes.txt" -> ".txt"
    [] OTHER -> ""

dirname(path) == IF path = <<>> THEN <<>> ELSE SubSeq(path, 1, Len(path) - 1)
basename(path) == IF path = <<>> THEN "" ELSE path[Len(path)]
IsPrefix(p, q) == Len(p) <= Len(q) /\ SubSeq(q, 1, Len(p)) = p

isfile(f, path) == path \in DOMAIN f
isdir(d, path) == path \in d
exists(f, d, path) == isfile(f, path) \/ isdir(d, path)

\* the permutations of a finite set, as sequences
Perms(S) ==
  {s \in [1..Cardinality(S) -> S] : \A i, j \in 1..Cardinality(S) : s[i] = s[j] => i = j}

\* the regular files of directory d with a supported extension
ImagesIn(f, d) ==
  {p \in DOMAIN f : dirname(p) = d /\ ExtLower(basename(p)) \in SUPPORTED_EXTS}
SubDirs(ds, d) == {p \in ds : p # <<>> /\ dirname(p) = d /\ p # d}

\* os.walk(path), top down: the matching files of a directory in the order the
\* system lists them, then each sub-directory in turn.  The listing order is
\* the system's: every order is possible.
RECURSIVE WalkOrders(_, _, _), WalkEach(_, _, _)
WalkOrders(f, ds, d) ==
  {here \o below : here \in Perms(ImagesIn(f, d)),
                   below \in UNION {WalkEach(f, ds, o) : o \in Perms(SubDirs(ds, d))}}
WalkEach(f, ds, order) ==
  IF order = <<>> THEN {<<>>}
  ELSE {a \o b : a \in WalkOrders(f, ds, Head(order)), b \in WalkEach(f, ds, Tail(order))}

\* find_images(path, recursive): the lists it can return; none when it raises
\* FileNotFoundError
find_images(f, ds, path, recursive) ==
  IF isfile(f, path)
    THEN IF ExtLower(basename(path)) \in SUPPORTED_EXTS THEN {<<path>>} ELSE {<<>>}
  ELSE IF isdir(ds, path)
    THEN IF recursive THEN WalkOrders(f, ds, path) ELSE Perms(ImagesIn(f, path))
  ELSE {}

\* resolve_root_and_output_dir(input_path): <<root_dir, output_root>>
resolve_root_and_output_dir(ds, input_path) ==
  LET root_dir == IF isdir(ds, input_path) THEN input_path ELSE dirname(input_path)
      base_name == basename(root_dir)
  IN <<root_dir, root_dir \o <<base_name \o "_watermark">>>>

\* os.path.relpath(path, start): up from start to the common directory, then
\* down to path
RECURSIVE CommonLen(_, _)
CommonLen(p, q) ==
  IF p # <<>> /\ q # <<>> /\ Head(p) = Head(q) THEN 1 + CommonLen(Tail(p), Tail(q)) ELSE 0
relpath(path, start) ==
  LET c == CommonLen(path, start)
  IN [i \in 1..(Len(start) - c) |-> ".."] \o SubSeq(path, c + 1, Len(path))

\* to_output_path that keeps the file name only
to_output_path_flat(output_root, root_dir, file_path) ==
  output_root \o <<basename(file_path)>>

\* to_output_path(output_root, root_dir, file_path)
to_output_path(output_root, root_dir, file_path) ==
  output_root \o relpath(file_path, root_dir)

\* os.makedirs(d, exist_ok=True) raises when a regular file has the name of d
\* or of a directory above it
makedirs_raises(f, d) == \E k \in 1..Len(d) : SubSeq(d, 1, k) \in DOMAIN f
makedirs(ds, d) == ds \cup {SubSeq(d, 1, k) : k \in 0..Len(d)}

(***************************************************************************)
(* File contents.  A regular file is [opens, exif, mark]: mark is the text *)
(* drawn on it by annotate_image, None for a file the program did not      *)
(* write.                                                                  *)
(***************************************************************************)
NoExif == [tg \in {"DateTimeOriginal", "DateTimeDigitized", "DateTime"} |-> None]
Original(img) == [opens |-> img.opens, exif |-> img.exif, mark |-> None]
\* what a save that raised part-way leaves behind
Truncated == [opens |-> FALSE, exif |-> NoExif, mark |-> None]

\* lines 217-228: the file written for extension ext.  No exif argument is
\* given to save, so the JPEG, WebP, TIFF and default writers store no EXIF
\* block; the PNG writer of some Pillow releases stores the block found in the
\* image's info, which convert and alpha_composite copy from the source
\* (keeps_exif).
Saved(src, text, ext, keeps_exif) ==
  [opens |-> TRUE,
   exif |-> IF ext = ".png" /\ keeps_exif THEN src.exif ELSE NoExif,
   mark |-> text]

\* the ways the body of annotate_image can end: it returns True after save, or
\* an exception is caught before anything is written, or during save
HowAnnotate == {"saved", "raised", "raised_in_save"}

\* annotate_image(src_path, text, out_path, ...): [ok, fs, dirs] after the call
annotate_image(f, ds, src_path, text, out_path, how, keeps_exif) ==
  IF how = "raised" \/ ~f[src_path].opens \/ makedirs_raises(f, dirname(out_path))
    THEN [ok |-> FALSE, fs |-> f, dirs |-> ds]
  ELSE IF how = "raised_in_save" \/ isdir(ds, out_path)
    THEN [ok |-> FALSE,
          fs |-> IF isdir(ds, out_path) THEN f
                 ELSE [q \in DOMAIN f \cup {out_path} |->
                         IF q = out_path THEN Truncated ELSE f[q]],
          dirs |-> makedirs(ds, dirname(out_path))]
  ELSE [ok |-> TRUE,
        fs |-> [q \in DOMAIN f \cup {out_path} |->
                  IF q = out_path
                    THEN Saved(f[src_path], text, ExtLower(basename(out_path)), keeps_exif)
                    ELSE f[q]],
        dirs |-> makedirs(ds, dirname(out_path))]

(***************************************************************************)
(* The program: main, run once or several times on a directory tree        *)
(***************************************************************************)
VARIABLES
  fs, dirs,            \* the file system
  pc,                  \* "idle", "loop", "dated", "summary", "exit0", "exit1", "crashed"
  args,                \* the command line of the run: path, recursive, overwrite
  files, idx,          \* the list find_images returned; the file the loop is at
  date_str,            \* the date extracted from that file
  root_dir, output_root,
  processed, skipped_no_date, skipped_exists, failed,
  log,                 \* what the loop did with each file so far
  written,             \* the paths annotate_image wrote to in this run
  fs_start,            \* the files when the run started
  prev,                \* the command line and counters of the run before
  runs,                \* the number of runs started
  call, ret            \* a call of one of the pure functions, and its result

vars == <<fs, dirs, pc, args, files, idx, date_str, root_dir, output_root, processed,
          skipped_no_date, skipped_exists, failed, log, written, fs_start,
          prev, runs, call, ret>>

MaxRuns == 2

Text(y, m, d, sep) ==
  <<DigitChars[(y \div 1000) + 1], DigitChars[((y \div 100) % 10) + 1],
    DigitChars[((y \div 10) % 10) + 1], DigitChars[(y % 10) + 1], sep>>
  \o Pad2(m) \o <<sep>> \o Pad2(d)

\* the images of the trees: a photo with its shooting date, one whose original
\* date is unusable and whose generic date is good, one without EXIF, and a
\* file Image.open rejects
Dated == Original(ImageFile(TRUE, Str(Text(2023, 7, 15, ":") \o <<" ", "1", "0", ":",
                                       "3", "0", ":", "0", "0">>), None, None))
DatedGeneric == Original(ImageFile(TRUE, Str(<<"0", "0", "0", "0", ":", "0", "0", ":",
                                   "0", "0">>), None, Str(Text(2021, 1, 2, "-"))))
Undated == Original(ImageFile(TRUE, None, None, None))
Unreadable == Original(ImageFile(FALSE, None, None, None))

R == <<"r">>
\* the files a tree can start with, each with the contents it can have: photos
\* in r and r/sub, a photo in a directory r/r_watermark, a regular file of
\* that name, and a file that is no image
TreeChoices ==
  [p \in {R \o <<"a.jpg">>, R \o <<"b.PNG">>, R \o <<"sub", "a.jpg">>,
          R \o <<"r_watermark", "a.jpg">>, R \o <<"r_watermark">>, R \o <<"notes.txt">>} |->
     CASE p = R \o <<"a.jpg">> -> {Dated, Undated, Unreadable}
       [] p = R \o <<"b.PNG">> -> {Dated}
       [] p = R \o <<"sub", "a.jpg">> -> {DatedGeneric}
       [] p = R \o <<"r_watermark", "a.jpg">> -> {Dated}
       [] OTHER -> {Unreadable}]
\* no regular file is a directory of another file
Consistent(S) == \A p, q \in S : p # q => ~IsPrefix(p, q)
\* the trees of one file or two
InitialTrees ==
  UNION {{f \in [S -> UNION {TreeChoices[p] : p \in S}] : \A p \in S : f[p] \in TreeChoices[p]} :
         S \in {{p, q} : p, q \in {x \in DOMAIN TreeChoices : TRUE}} \cap
               {T \in SUBSET DOMAIN TreeChoices : Consistent(T)}}
DirsOf(f) == {<<>>, R} \cup UNION {{SubSeq(p, 1, k) : k \in 0..(Len(p) - 1)} : p \in DOMAIN f}

\* the paths given on the command line
InputPaths == {R, R \o <<"sub">>, R \o <<"a.jpg">>, R \o <<"nowhere">>}

NoCall == [fn |-> "none"]
NoRun == [completed |-> FALSE]
NoArgs == [path |-> <<>>, recursive |-> TRUE, overwrite |-> FALSE]

Init ==
  /\ fs \in InitialTrees
  /\ dirs = DirsOf(fs)
  /\ pc = "idle"
  /\ args = NoArgs
  /\ files = <<>> /\ idx = 1 /\ date_str = None
  /\ root_dir = <<>> /\ output_root = <<>>
  /\ processed = 0 /\ skipped_no_date = 0 /\ skipped_exists = 0 /\ failed = 0
  /\ log = <<>> /\ written = {} /\ fs_start = fs
  /\ prev = NoRun /\ runs = 0
  /\ call = NoCall /\ ret = NoCall

ThisRun ==
  IF pc = "summary"
    THEN [completed |-> TRUE, args |-> args, processed |-> processed,
          skipped_no_date |-> skipped_no_date, skipped_exists |-> skipped_exists,
          failed |-> failed]
    ELSE NoRun

\* lines 288-308: a run starts: the arguments are parsed, the files discovered
\* (exit 1 when the path does not exist, exit 0 when nothing is found), the
\* roots resolved and the counters zeroed
Discover(path, recursive, overwrite) ==
  /\ pc \notin {"loop", "dated"} /\ runs < MaxRuns
  /\ runs > 0 => path = args.path /\ recursive = args.recursive
  /\ runs' = runs + 1
  /\ prev' = ThisRun
  /\ args' = [path |-> path, recursive |-> recursive, overwrite |-> overwrite]
  /\ IF find_images(fs, dirs, path, recursive) = {}
       THEN /\ pc' = "exit1"
            /\ files' = <<>>
       ELSE \E found \in find_images(fs, dirs, path, recursive) :
              /\ files' = found
              /\ pc' = IF found = <<>> THEN "exit0" ELSE "loop"
  /\ root_dir' = resolve_root_and_output_dir(dirs, path)[1]
  /\ output_root' = resolve_root_and_output_dir(dirs, path)[2]
  /\ idx' = 1 /\ date_str' = None
  /\ processed' = 0 /\ skipped_no_date' = 0 /\ skipped_exists' = 0 /\ failed' = 0
  /\ log' = <<>> /\ written' = {} /\ fs_start' = fs
  /\ UNCHANGED <<fs, dirs, call, ret>>

fp == files[idx]
out_path == to_output_path(output_root, root_dir, fp)
Entry(outcome, out) == [fp |-> fp, outcome |-> outcome, out |-> out]

\* the loop counting a file that does not open as failed
Extracted_counts_failed(d) ==
  IF d = None
    THEN /\ IF fs[fp].opens
              THEN skipped_no_date' = skipped_no_date + 1 /\ failed' = failed
              ELSE failed' = failed + 1 /\ skipped_no_date' = skipped_no_date
         /\ log' = Append(log, Entry("skipped_no_date", <<>>))
         /\ idx' = idx + 1
         /\ UNCHANGED <<pc, date_str>>
    ELSE /\ date_str' = d
         /\ pc' = "dated"
         /\ UNCHANGED <<skipped_no_date, failed, log, idx>>
ExtractDate_counts_failed ==
  /\ pc = "loop" /\ idx <= Len(files)
  /\ Extracted_counts_failed(extract_date_from_exif(fs[fp]))
  /\ UNCHANGED <<fs, dirs, args, files, root_dir, output_root, processed,
                 skipped_exists, written, fs_start, prev, runs, call, ret>>

\* lines 310-315: the next file's date is extracted; without a date the file
\* is skipped
Extracted(d) ==
  IF d = None
    THEN /\ skipped_no_date' = skipped_no_date + 1
         /\ log' = Append(log, Entry("skipped_no_date", <<>>))
         /\ idx' = idx + 1
         /\ UNCHANGED <<pc, date_str>>
    ELSE /\ date_str' = d
         /\ pc' = "dated"
         /\ UNCHANGED <<skipped_no_date, log, idx>>
ExtractDate ==
  /\ pc = "loop" /\ idx <= Len(files)
  /\ Extracted(extract_date_from_exif(fs[fp]))
  /\ UNCHANGED <<fs, dirs, args, files, root_dir, output_root, processed,
                 skipped_exists, failed, written, fs_start, prev, runs, call, ret>>

\* lines 317-318: os.makedirs raises and nothing in main catches it
MakedirsRaises ==
  /\ pc = "dated"
  /\ makedirs_raises(fs, dirname(out_path))
  /\ pc' = "crashed"
  /\ UNCHANGED <<fs, dirs, args, files, idx, date_str, root_dir, output_root,
                 processed, skipped_no_date, skipped_exists, failed, log, written,
                 fs_start, prev, runs, call, ret>>

\* lines 317-322: the output exists and --overwrite is not given
SkipExists ==
  /\ pc = "dated"
  /\ ~makedirs_raises(fs, dirname(out_path))
  /\ ~args.overwrite /\ exists(fs, makedirs(dirs, dirname(out_path)), out_path)
  /\ dirs' = makedirs(dirs, dirname(out_path))
  /\ skipped_exists' = skipped_exists + 1
  /\ log' = Append(log, Entry("skipped_exists", out_path))
  /\ idx' = idx + 1 /\ pc' = "loop" /\ date_str' = None
  /\ UNCHANGED <<fs, args, files, root_dir, output_root, processed,
                 skipped_no_date, failed, written, fs_start, prev, runs, call, ret>>

\* lines 317-339: annotate_image is called; processed or failed
Annotate(how, keeps_exif) ==
  /\ pc = "dated"
  /\ ~makedirs_raises(fs, dirname(out_path))
  /\ args.overwrite \/ ~exists(fs, makedirs(dirs, dirname(out_path)), out_path)
  /\ keeps_exif => how = "saved" /\ ExtLower(basename(out_path)) = ".png"
  /\ LET r == annotate_image(fs, makedirs(dirs, dirname(out_path)), fp, date_str,
                             out_path, how, keeps_exif)
     IN /\ fs' = r.fs
        /\ dirs' = r.dirs
        /\ written' = IF r.fs # fs THEN written \cup {out_path} ELSE written
        /\ IF r.ok
             THEN /\ processed' = processed + 1
                  /\ failed' = failed
                  /\ log' = Append(log, Entry("processed", out_path))
             ELSE /\ failed' = failed + 1
                  /\ processed' = processed
                  /\ log' = Append(log, Entry("failed", out_path))
  /\ idx' = idx + 1 /\ pc' = "loop" /\ date_str' = None
  /\ UNCHANGED <<args, files, root_dir, output_root, skipped_no_date,
                 skipped_exists, fs_start, prev, runs, call, ret>>

\* lines 341-345: the loop is over, the summary is printed
Summary ==
  /\ pc = "loop" /\ idx > Len(files)
  /\ pc' = "summary"
  /\ UNCHANGED <<fs, dirs, args, files, idx, date_str, root_dir, output_root,
                 processed, skipped_no_date, skipped_exists, failed, log, written,
                 fs_start, prev, runs, call, ret>>

Next ==
  \/ \E path \in InputPaths, recursive \in BOOLEAN, overwrite \in BOOLEAN :
       Discover(path, recursive, overwrite)
  \/ ExtractDate
  \/ MakedirsRaises
  \/ SkipExists
  \/ \E how \in HowAnnotate, keeps_exif \in BOOLEAN : Annotate(how, keeps_exif)
  \/ Summary

Spec == Init /\ [][Next]_vars

(***************************************************************************)
(* The pure functions, each called once on an argument drawn from a        *)
(* bounded set                                                             *)
(***************************************************************************)
MaxTail == 2
MaxDim == 3

\* the sequences over S of length at most n
SeqsUpTo(S, n) == UNION {[1..k -> S] : k \in 0..n}

\* dates as they are written in the field, with whether the calendar has them
SampleDates ==
  { [y |-> 2023, m |-> 7, d |-> 15, valid |-> TRUE],
    [y |-> 2024, m |-> 2, d |-> 29, valid |-> TRUE],
    [y |-> 1999, m |-> 12, d |-> 31, valid |-> TRUE],
    [y |-> 2023, m |-> 2, d |-> 30, valid |-> FALSE],
    [y |-> 2023, m |-> 13, d |-> 1, valid |-> FALSE],
    [y |-> 0, m |-> 0, d |-> 0, valid |-> FALSE] }
\* times of day after the date: none, valid ones, and unusable ones
SampleTimes ==
  { [text |-> <<>>, valid |-> TRUE],
    [text |-> <<" ", "1", "0", ":", "3", "0", ":", "0", "0">>, valid |-> TRUE],
    [text |-> <<" ", "2", "3", ":", "5", "9", ":", "5", "9">>, valid |-> TRUE],
    [text |-> <<" ", "2", "5", ":", "0", "0", ":", "0", "0">>, valid |-> FALSE],
    [text |-> <<" ", "1", "0", ":", "3", "0", ":", "6", "0">>, valid |-> FALSE],
    [text |-> <<"T", "1", "0", ":", "3", "0">>, valid |-> FALSE] }
TailChars == {NUL, " ", "x", "7", ":"}
BlankChars == {NUL, " ", "\t"}

ParseCalls ==
  {[fn |-> "parse", arg |-> Str(Text(dt.y, dt.m, dt.d, sep) \o tm.text \o tail),
    date |-> dt, time |-> tm, tail |-> tail, blank |-> FALSE] :
     dt \in SampleDates, sep \in {":", "-", "/"}, tm \in SampleTimes,
     tail \in SeqsUpTo(TailChars, MaxTail)}
  \cup
  {[fn |-> "parse", arg |-> Str(b), date |-> [y |-> 0, m |-> 0, d |-> 0, valid |-> FALSE],
    time |-> [text |-> <<>>, valid |-> FALSE], tail |-> <<>>, blank |-> TRUE] :
     b \in SeqsUpTo(BlankChars, MaxTail + 1)}

\* the values a tag can have: absent, empty, text that parses, text that does
\* not, bytes (with an undecodable byte and a trailing NUL), a number
GoodText1 == Str(Text(2023, 7, 15, ":") \o <<" ", "1", "0", ":", "3", "0", ":", "0", "0">>)
GoodText2 == Str(Text(2021, 1, 2, "-"))
GoodBytes == Bytes(<<"BAD">> \o Text(2019, 12, 31, "/") \o <<NUL>>)
BadText == Str(<<"0", "0", "0", "0", ":", "0", "0", ":", "0", "0", " ", "0", "0", ":",
                 "0", "0", ":", "0", "0">>)
TagValues == {None, Str(<<>>), Bytes(<<>>), GoodText1, GoodText2, GoodBytes, BadText,
              PyInt(20230715)}
ExtractCalls ==
  {[fn |-> "extract", arg |-> ImageFile(opens, o, d, g)] :
     opens \in BOOLEAN, o \in TagValues, d \in TagValues, g \in TagValues}

CalcCalls ==
  {[fn |-> "calc_position", pos |-> pos, img_w |-> w, img_h |-> h, text_w |-> tw,
    text_h |-> th, margin |-> mg] :
     pos \in {POS_CHOICES[i] : i \in 1..Len(POS_CHOICES)} \cup {"middle"},
     w \in 0..MaxDim, h \in 0..MaxDim, tw \in 0..MaxDim, th \in 0..MaxDim,
     mg \in (0 - 1)..MaxDim}
  \cup
  {[fn |-> "calc_position", pos |-> pos, img_w |-> 1000, img_h |-> 800, text_w |-> 100,
    text_h |-> 30, margin |-> 20] :
     pos \in {POS_CHOICES[i] : i \in 1..Len(POS_CHOICES)} \cup {"middle"}}

SampleColors ==
  { <<"#", "F", "F", "F", "F", "F", "F">>, <<"#", "0", "8", "f">>, <<"#", "1", "2">>,
    <<"#", "g", "g", "g">>, <<"R", "e", "d", " ">>, <<"b", "l", "u", "e">>,
    <<"n", "o", "t", "-", "a">>, <<>>,
    <<"2", "5", "5", ",", "0", ",", "0">>, <<" ", "1", "0", " ", ",", "2", "0", ",", " ", "3", "0">>,
    <<"3", "0", "0", ",", "0", ",", "0">>, <<"0", ",", "-", "5", ",", "0">>,
    <<"0", ",", "0", ",", "2", "5", "6">>, <<"1", ",", "2">>, <<"1", ",", ",", "3">>,
    <<"1", ",", "2", ",", "3", ",", "4">>, <<"1", ",", "x", ",", "3">> }
SampleOpacities == {0 - 300, 0 - 1, 0, 1, 200, 255, 256, 1000}
FillCalls ==
  {[fn |-> "fill", color |-> c, opacity |-> o] : c \in SampleColors, o \in SampleOpacities}

InitFunctions ==
  /\ fs = <<>> /\ dirs = {}
  /\ pc = "idle"
  /\ args = NoArgs
  /\ files = <<>> /\ idx = 1 /\ date_str = None
  /\ root_dir = <<>> /\ output_root = <<>>
  /\ processed = 0 /\ skipped_no_date = 0 /\ skipped_exists = 0 /\ failed = 0
  /\ log = <<>> /\ written = {} /\ fs_start = <<>>
  /\ prev = NoRun /\ runs = 0
  /\ call \in ParseCalls \cup ExtractCalls \cup CalcCalls \cup FillCalls
  /\ ret = NoCall

Returns(fn, value) ==
  /\ call.fn = fn /\ ret = NoCall
  /\ ret' = [fn |-> fn, value |-> value]
  /\ UNCHANGED <<fs, dirs, pc, args, files, idx, date_str, root_dir, output_root,
                 processed, skipped_no_date, skipped_exists, failed, log, written,
                 fs_start, prev, runs, call>>

CallParse == Returns("parse", parse_exif_datetime(call.arg))
CallExtract == Returns("extract", extract_date_from_exif(call.arg))
CallCalcPosition ==
  Returns("calc_position", calc_position(call.pos, call.img_w, call.img_h, call.text_w,
                                         call.text_h, call.margin))
\* main clamps the opacity (line 330) and annotate_image builds the fill
CallFill == Returns("fill", text_fill(call.color, main_opacity(call.opacity)))

NextFunctions == CallParse \/ CallExtract \/ CallCalcPosition \/ CallFill

SpecFunctions == InitFunctions /\ [][NextFunctions]_vars

(***************************************************************************)
(* Properties                                                              *)
(***************************************************************************)
Range(s) == {s[i] : i \in 1..Len(s)}
Count(outcome) == Cardinality({i \in 1..Len(log) : log[i].outcome = outcome})
LastEntry(l) == l[Len(l)]
Handled == Len(log') = Len(log) + 1
Counters == <<processed, skipped_no_date, skipped_exists, failed>>

\* C1, in the case the claim is made for (the first run counted no file as
\* failed or as skipped because it existed): a run without --overwrite that
\* follows a completed run on the same path writes no file, and its
\* skipped-exists counter is the number of files the run before counted as
\* processed.
C1_RerunWritesNothing ==
  (/\ pc = "summary" /\ prev.completed /\ ~args.overwrite
   /\ prev.failed = 0 /\ prev.skipped_exists = 0)
  => written = {} /\ skipped_exists = prev.processed

\* the output path is free for annotate_image: --overwrite, or nothing there
Free == args.overwrite \/ ~exists(fs, dirs, out_path)

\* C2: annotate_image is called for a file exactly when a date was extracted
\* for it and (--overwrite is given or its output path does not exist then); a
\* file without a date is counted skipped-no-date whether or not its output
\* exists; a skipped file's output is left as it was.
C2_AnnotateIffDatedAndFree ==
  [][/\ (pc = "dated" /\ Free)
          => Handled /\ LastEntry(log').outcome \in {"processed", "failed"}
     /\ (pc = "dated" /\ ~Free)
          => Handled /\ LastEntry(log').outcome = "skipped_exists" /\ fs' = fs
     /\ (pc = "loop" /\ idx <= Len(files) /\ extract_date_from_exif(fs[fp]) = None)
          => /\ Handled /\ LastEntry(log').outcome = "skipped_no_date"
             /\ skipped_no_date' = skipped_no_date + 1 /\ fs' = fs]_vars

\* C3: no run writes to the path of a file that find_images gave it as input.
C3_NoInputWritten == written \cap Range(files) = {}

\* C4: a file that does not open in extract_date_from_exif adds one to
\* skipped-no-date and nothing to the other counters; a file with a date for
\* which annotate_image fails adds one to failed and nothing to the others.
C4_FailureClassification ==
  [][/\ (pc = "loop" /\ idx <= Len(files) /\ ~fs[fp].opens)
          => Counters' = <<processed, skipped_no_date + 1, skipped_exists, failed>>
     /\ (pc = "dated" /\ Handled /\ LastEntry(log').outcome = "failed")
          => /\ Counters' = <<processed, skipped_no_date, skipped_exists, failed + 1>>
             /\ date_str # None
             /\ fs'[fp] = fs[fp]
             /\ out_path \in DOMAIN fs' => fs'[out_path].mark # date_str
                                           \/ (out_path \in DOMAIN fs /\ fs'[out_path] = fs[out_path])
     /\ (pc = "dated" /\ Handled /\ LastEntry(log').outcome # "failed")
          => failed' = failed]_vars
C4_Witness ==
  /\ pc = "summary" /\ failed = 1 /\ skipped_no_date = 1 /\ processed = 0
  /\ \E i \in 1..Len(log) : log[i].outcome = "skipped_no_date" /\ ~fs[log[i].fp].opens

\* C5: whatever happens to a file, the loop goes on to the next, the run
\* reaches the summary, and there the four counters add up to the number of
\* files discovered.
C5_RunReachesSummary ==
  /\ pc # "crashed"
  /\ pc = "summary" => processed + skipped_no_date + skipped_exists + failed = Len(files)

\* C6: the date returned is that of the first tag, in the order original,
\* digitized, generic, whose value is present, non-empty and parses; a tag that
\* is present and does not parse does not keep a later tag from being used.
AsText(v) == IF v.type = "bytes" THEN Str(Decode(v.val)) ELSE v
Usable(v) ==
  /\ Truthy(v) /\ v.type \in {"str", "bytes"}
  /\ parse_exif_datetime(AsText(v)).type = "date"
FirstUsable(exif) ==
  IF \E k \in 1..Len(DATETIME_TAGS) : Usable(exif[DATETIME_TAGS[k]])
    THEN LET k == CHOOSE n \in 1..Len(DATETIME_TAGS) :
                    /\ Usable(exif[DATETIME_TAGS[n]])
                    /\ \A j \in 1..(n - 1) : ~Usable(exif[DATETIME_TAGS[j]])
         IN PyText(parse_exif_datetime(AsText(exif[DATETIME_TAGS[k]])))
    ELSE None
C6_FirstUsableTagWins ==
  (call.fn = "extract" /\ ret # NoCall /\ call.arg.opens)
  => ret.value = FirstUsable(call.arg.exif)

\* C7: the output of a discovered file root_dir/<rel> is
\* root_dir/<basename(root_dir)>_watermark/<rel>, root_dir being the input
\* directory or the directory of the input file; two discovered files never
\* have the same output.
InputRoot == IF isdir(dirs, args.path) THEN args.path ELSE dirname(args.path)
Mirror(f) ==
  InputRoot \o <<basename(InputRoot) \o "_watermark">> \o SubSeq(f, Len(InputRoot) + 1, Len(f))
C7_OutputMirrorsInput ==
  pc \in {"loop", "dated", "summary", "crashed"} =>
    /\ \A i \in 1..Len(files) :
         /\ IsPrefix(InputRoot, files[i])
         /\ to_output_path(output_root, root_dir, files[i]) = Mirror(files[i])
    /\ \A i, j \in 1..Len(files) :
         to_output_path(output_root, root_dir, files[i])
           = to_output_path(output_root, root_dir, files[j]) => i = j
    /\ \A i \in 1..Len(log) : log[i].out # <<>> => log[i].out = Mirror(log[i].fp)
    /\ written \subseteq {Mirror(files[i]) : i \in 1..Len(files)}
C7_Witness ==
  /\ pc = "summary" /\ args.path = R /\ Len(files) = 2
  /\ \E i \in 1..Len(log) :
       /\ log[i].outcome = "processed"
       /\ log[i].fp = R \o <<"sub", "a.jpg">>
       /\ log[i].out = R \o <<"r_watermark", "sub", "a.jpg">>
       /\ log[i].out \in DOMAIN fs

\* C8: each axis is resolved on its own: the margin (left, top), the floor of
\* half the free space (center), or the free space less the margin (right,
\* bottom), with no clamping; a name outside the nine is bottom-right.
Horizontal(pos) ==
  CASE pos \in {"top-left", "center-left", "bottom-left"} -> "start"
    [] pos \in {"top-center", "center", "bottom-center"} -> "center"
    [] OTHER -> "end"
Vertical(pos) ==
  CASE pos \in {"top-left", "top-center", "top-right"} -> "start"
    [] pos \in {"center-left", "center", "center-right"} -> "center"
    [] OTHER -> "end"
AxisOk(part, coord, img, text, margin) ==
  CASE part = "start" -> coord = margin
    [] part = "center" -> 2 * coord <= img - text /\ img - text <= 2 * coord + 1
    [] OTHER -> coord + text + margin = img
C8_CalcPosition ==
  (call.fn = "calc_position" /\ ret # NoCall) =>
    /\ AxisOk(Horizontal(call.pos), ret.value[1], call.img_w, call.text_w, call.margin)
    /\ AxisOk(Vertical(call.pos), ret.value[2], call.img_h, call.text_h, call.margin)
    /\ (call.img_w = 1000 /\ call.pos = "bottom-right") => ret.value = <<880, 750>>
    /\ (call.img_w = 1000 /\ call.pos = "center") => ret.value = <<450, 385>>
    /\ (call.img_w = 1000 /\ call.pos = "middle") => ret.value = <<880, 750>>
C8_Witness ==
  /\ call.fn = "calc_position" /\ ret # NoCall
  /\ call.pos = "center" /\ call.img_w - call.text_w = 0 - 3 /\ call.img_h = call.text_h + 1
  /\ ret.value = <<0 - 2, 0>>

\* C9: for text, the parser never raises; a valid date written YYYY:MM:DD,
\* YYYY-MM-DD or YYYY/MM/DD, whatever follows it (a time, NULs, white space,
\* garbage), gives that date; empty, blank or NUL-only text gives no date.
C9_ParseSalvagesLeadingDate ==
  (call.fn = "parse" /\ ret # NoCall) =>
    /\ ret.value # Raised
    /\ (~call.blank /\ call.date.valid)
         => ret.value = Date(call.date.y, call.date.m, call.date.d)
    /\ call.blank => ret.value = None
C9_Witness ==
  /\ call.fn = "parse" /\ ret # NoCall
  /\ call.date.valid /\ call.time.text = <<>> /\ call.tail = <<NUL, "x">>
  /\ ret.value = Date(call.date.y, call.date.m, call.date.d)

\* C10: the four components of the fill given to draw.text are in 0..255.
C10_FillInByteRange ==
  (call.fn = "fill" /\ ret # NoCall) => \A i \in 1..4 : ret.value[i] \in 0..255

=============================================================================
